---- MODULE Spec2Model ----
(***************************************************************************)
(* Model of the mentor sign-up components: the quoted-field scanner of     *)
(* CSVDataTable (parseCSV), the two-pass parser of LiveResponsesTable      *)
(* (parseCSV), CSVDataTable itself (fetchCSVData, its timers, effects and  *)
(* buttons) and BackupMentorForm (handleInputChange, handleSubmit).        *)
(* A string is a sequence of characters; '' is << >>.                      *)
(***************************************************************************)
EXTENDS Integers, Sequences, FiniteSets, TLC

\* ------------------------------------------------------------ bounds
MaxLen == 5
MaxUrlChanges == 1
MaxCalls == 2

\* ------------------------------------------------------------ characters
DQ == "\""
COMMA == ","
LF == "\n"
CR == "\r"
SP == " "
LETTER == "a"

Chars == {DQ, COMMA, LF, CR, SP, LETTER}

\* the markers fetchCSVData looks for, each standing for its run of characters
HTML == "<html"
DOCTYPE == "<!DOCTYPE"

\* text[i + 1] past the end of a string
Undefined == "undefined"

\* the characters String.prototype.trim removes
WhiteSpace == {SP, LF, CR}

Inputs == UNION {[1..n -> Chars] : n \in 0..MaxLen}

\* ------------------------------------------------------------ string helpers
RECURSIVE TrimStart(_)
TrimStart(s) ==
  IF s # << >> /\ Head(s) \in WhiteSpace THEN TrimStart(Tail(s)) ELSE s

RECURSIVE TrimEnd(_)
TrimEnd(s) ==
  IF s # << >> /\ s[Len(s)] \in WhiteSpace
    THEN TrimEnd(SubSeq(s, 1, Len(s) - 1))
    ELSE s

Trim(s) == TrimEnd(TrimStart(s))

\* currentRow.some(cell => cell.length > 0)
SomeCell(row) == \E k \in 1..Len(row) : Len(row[k]) > 0

\* ------------------------------------------------------------ CSVDataTable.parseCSV
\* The scanner's locals as a record: i is the 1-based loop index.
ScanInit ==
  [i |-> 1, current |-> << >>, inQuotes |-> FALSE,
   currentRow |-> << >>, rows |-> << >>]

CharAt(t, k) == IF k \in 1..Len(t) THEN t[k] ELSE Undefined

\* mutant: a doubled quote read as an escape outside a quoted field too
IsEscapedQuoteAnywhere(t, s) ==
  CharAt(t, s.i) = DQ /\ CharAt(t, s.i + 1) = DQ

\* if (char === '"') { if (inQuotes && nextChar === '"')
IsEscapedQuote(t, s) ==
  CharAt(t, s.i) = DQ /\ s.inQuotes /\ CharAt(t, s.i + 1) = DQ

IsToggleQuote(t, s) ==
  CharAt(t, s.i) = DQ /\ ~(s.inQuotes /\ CharAt(t, s.i + 1) = DQ)

\* mutant: the comma test without !inQuotes
IsEndOfFieldAnywhere(t, s) == CharAt(t, s.i) = COMMA

\* else if (char === ',' && !inQuotes)
IsEndOfField(t, s) == CharAt(t, s.i) = COMMA /\ ~s.inQuotes

\* mutant: the terminator test without !inQuotes
IsEndOfRowAnywhere(t, s) == CharAt(t, s.i) \in {LF, CR}

\* else if ((char === '\n' || char === '\r') && !inQuotes)
IsEndOfRow(t, s) == CharAt(t, s.i) \in {LF, CR} /\ ~s.inQuotes

IsPlain(t, s) ==
  ~(CharAt(t, s.i) = DQ) /\ ~IsEndOfField(t, s) /\ ~IsEndOfRow(t, s)

\* current += '"'; i++ (and the loop's own i++)
EscapedQuote(s) ==
  [s EXCEPT !.current = Append(@, DQ), !.i = @ + 2]

\* mutant: the toggle branch undoes the loop's i++
ToggleQuoteStays(s) ==
  [s EXCEPT !.inQuotes = ~@]

\* inQuotes = !inQuotes
ToggleQuote(s) ==
  [s EXCEPT !.inQuotes = ~@, !.i = @ + 1]

\* mutant: the field pushed without trim()
EndOfFieldUntrimmed(s) ==
  [s EXCEPT !.currentRow = Append(@, s.current),
            !.current = << >>,
            !.i = @ + 1]

\* currentRow.push(current.trim()); current = ''
EndOfField(s) ==
  [s EXCEPT !.currentRow = Append(@, Trim(s.current)),
            !.current = << >>,
            !.i = @ + 1]

\* mutant: the row pushed without the some() test
PushRowAlways(rows, row) == Append(rows, row)

\* if (currentRow.some(...)) rows.push(currentRow)
PushRow(rows, row) == IF SomeCell(row) THEN Append(rows, row) ELSE rows

\* mutant: no skip of the \n of a \r\n pair
EndOfRowNoSkip(t, s) ==
  [s EXCEPT !.rows = PushRow(@, Append(s.currentRow, Trim(s.current))),
            !.currentRow = << >>,
            !.current = << >>,
            !.i = @ + 1]

\* the \r\n skip, the push of the last field, the row push and the resets
EndOfRow(t, s) ==
  LET skip == IF CharAt(t, s.i) = CR /\ CharAt(t, s.i + 1) = LF THEN 1 ELSE 0
      row == Append(s.currentRow, Trim(s.current))
  IN [s EXCEPT !.rows = PushRow(@, row),
               !.currentRow = << >>,
               !.current = << >>,
               !.i = @ + 1 + skip]

\* current += char
PlainChar(t, s) ==
  [s EXCEPT !.current = Append(@, CharAt(t, s.i)), !.i = @ + 1]

\* one iteration of the for loop
ScanChar(t, s) ==
  IF IsEscapedQuote(t, s) THEN EscapedQuote(s)
  ELSE IF IsToggleQuote(t, s) THEN ToggleQuote(s)
  ELSE IF IsEndOfField(t, s) THEN EndOfField(s)
  ELSE IF IsEndOfRow(t, s) THEN EndOfRow(t, s)
  ELSE PlainChar(t, s)

\* mutant: the last row handled only when a field was already pushed
LastRowNeedsFields(s) ==
  IF Len(s.currentRow) > 0
    THEN PushRow(s.rows, Append(s.currentRow, Trim(s.current)))
    ELSE s.rows

\* if (current || currentRow.length > 0) { ... } return rows
LastRow(s) ==
  IF s.current # << >> \/ Len(s.currentRow) > 0
    THEN PushRow(s.rows, Append(s.currentRow, Trim(s.current)))
    ELSE s.rows

RECURSIVE ScanFrom(_, _)
ScanFrom(t, s) == IF s.i <= Len(t) THEN ScanFrom(t, ScanChar(t, s)) ELSE s

\* the whole function
ParseCSV(t) == LastRow(ScanFrom(t, ScanInit))

\* ------------------------------------------------------------ LiveResponsesTable.parseCSV
\* first pass: the text cut into trimmed, non-blank lines
LineInit ==
  [i |-> 1, currentLine |-> << >>, insideQuote |-> FALSE, lines |-> << >>]

\* if (currentLine.trim()) lines.push(currentLine.trim())
PushLine(lines, line) ==
  IF Trim(line) # << >> THEN Append(lines, Trim(line)) ELSE lines

\* one iteration of the first loop: a quote flips the flag and is kept
LineChar(t, s) ==
  LET char == CharAt(t, s.i)
  IN IF char = DQ
       THEN [s EXCEPT !.insideQuote = ~@,
                      !.currentLine = Append(@, char),
                      !.i = @ + 1]
     ELSE IF char = LF /\ ~s.insideQuote
       THEN [s EXCEPT !.lines = PushLine(@, s.currentLine),
                      !.currentLine = << >>,
                      !.i = @ + 1]
     ELSE [s EXCEPT !.currentLine = Append(@, char), !.i = @ + 1]

RECURSIVE LinesFrom(_, _)
LinesFrom(t, s) == IF s.i <= Len(t) THEN LinesFrom(t, LineChar(t, s)) ELSE s

\* "Add the last line if it exists"
LastLine(s) == PushLine(s.lines, s.currentLine)

SplitLines(t) == LastLine(LinesFrom(t, LineInit))

\* second pass: one line cut into fields
FieldInit ==
  [i |-> 1, currentField |-> << >>, insideQuote |-> FALSE, fields |-> << >>]

\* .replace(/^"(.*)"$/, '$1'): the dot matches no line terminator
StripQuotes(s) ==
  IF /\ Len(s) >= 2
     /\ s[1] = DQ
     /\ s[Len(s)] = DQ
     /\ \A k \in 2..Len(s) - 1 : s[k] \notin {LF, CR}
    THEN SubSeq(s, 2, Len(s) - 1)
    ELSE s

\* fields.push(currentField.trim().replace(...))
PushField(fields, field) == Append(fields, StripQuotes(Trim(field)))

\* one iteration of the loop over a line
FieldChar(line, s) ==
  LET char == CharAt(line, s.i)
  IN IF char = DQ
       THEN [s EXCEPT !.insideQuote = ~@,
                      !.currentField = Append(@, char),
                      !.i = @ + 1]
     ELSE IF char = COMMA /\ ~s.insideQuote
       THEN [s EXCEPT !.fields = PushField(@, s.currentField),
                      !.currentField = << >>,
                      !.i = @ + 1]
     ELSE [s EXCEPT !.currentField = Append(@, char), !.i = @ + 1]

RECURSIVE FieldsFrom(_, _)
FieldsFrom(line, s) ==
  IF s.i <= Len(line) THEN FieldsFrom(line, FieldChar(line, s)) ELSE s

\* "Add the last field"; return fields
LastField(s) == PushField(s.fields, s.currentField)

LineFields(line) == LastField(FieldsFrom(line, FieldInit))

\* row[index] || ''
FieldOr(row, k) == IF k \in 1..Len(row) THEN row[k] ELSE << >>

\* headers.forEach((header, index) => rowObject[header] = row[index] || ''):
\* an object keyed by header, the latest assignment to a key standing
RowObject(headers, row) ==
  [h \in {headers[k] : k \in DOMAIN headers} |->
     LET k == CHOOSE k \in DOMAIN headers :
                /\ headers[k] = h
                /\ \A m \in DOMAIN headers : headers[m] = h => m <= k
     IN FieldOr(row, k)]

\* if (parsedLines.length < 2) return []; ... return dataRows.map(...)
RowObjects(parsedLines) ==
  IF Len(parsedLines) < 2 THEN << >>
  ELSE [r \in 1..Len(parsedLines) - 1 |->
          RowObject(parsedLines[1], parsedLines[r + 1])]

\* the whole function
LiveParseCSV(t) ==
  LET lines == SplitLines(t)
  IN IF Len(lines) = 0 THEN << >>
     ELSE RowObjects([n \in 1..Len(lines) |-> LineFields(lines[n])])

\* ------------------------------------------------------------ CSVDataTable rendering
\* {headers.map((_, cellIndex) => <td>{row[cellIndex] || ''}</td>)}
RenderRow(headers, row) == [c \in 1..Len(headers) |-> FieldOr(row, c)]

\* headers = displayData[0]; rows = displayData.slice(1)
RenderBody(displayData) ==
  IF Len(displayData) = 0 THEN << >>
  ELSE [r \in 1..Len(displayData) - 1 |->
          RenderRow(displayData[1], displayData[r + 1])]

\* ------------------------------------------------------------ CSVDataTable.fetchCSVData
\* fetchAttempts.length
NumAttempts == 4

\* the setTimeout delays, in seconds
FallbackDelay == 2
RetryDelay == 5

\* the error messages, and what setError stores
HTTP404 == "HTTP 404: Not Found"
HTTP500 == "HTTP 500: Internal Server Error"
FetchRejected == "Failed to fetch"
BadJson == "Unexpected token in JSON"
EmptyResponse == "Empty response received"
ReceivedHtml == "Received HTML instead of CSV data"
NoDataFound == "No data found in CSV"
NotAccessible == "Google Sheets data not accessible. Showing sample data below."
UnableToLoad == "Unable to load live data."
Null == "null"

\* message.includes('404')
Includes404(message) == message = HTTP404

\* the bodies a source may answer with
FetchTexts ==
  { <<SP>>,
    <<COMMA>>,
    <<LETTER>>,
    <<LETTER, COMMA, LETTER>>,
    <<LETTER, COMMA, HTML>> }

\* what awaiting an attempt can bring: a rejected fetch, a response that is not
\* ok, a body that response.json() rejects (the allorigins attempt only), a body
Outcomes(k) ==
  {[kind |-> x, text |-> << >>] : x \in {"rejected", "status404", "status500"}}
    \cup (IF k = 3 THEN {[kind |-> "badjson", text |-> << >>]} ELSE {})
    \cup {[kind |-> "ok", text |-> t] : t \in FetchTexts}

\* text.includes('<html') || text.includes('<!DOCTYPE')
LooksLikeHtml(t) == \E k \in DOMAIN t : t[k] \in {HTML, DOCTYPE}

\* the error the inner try block throws on an outcome; Null when it throws none
AttemptError(o) ==
  IF o.kind = "rejected" THEN FetchRejected
  ELSE IF o.kind = "status404" THEN HTTP404
  ELSE IF o.kind = "status500" THEN HTTP500
  ELSE IF o.kind = "badjson" THEN BadJson
  ELSE IF Len(o.text) = 0 \/ Len(Trim(o.text)) = 0 THEN EmptyResponse
  ELSE IF LooksLikeHtml(o.text) THEN ReceivedHtml
  ELSE IF Len(ParseCSV(o.text)) = 0 THEN NoDataFound
  ELSE Null

\* the locals of one call that live across an await: k is the attempt awaited
\* (the loop's i + 1), tried the attempts started so far. lastError is assigned
\* in the catch and read by the throw of the same step, so it is not state.
NewCall(url) ==
  [url |-> url, k |-> 1, pc |-> "await", tried |-> <<1>>, is404Error |-> FALSE]

\* a call that has returned holds no locals any more
Returned(c, how) ==
  [url |-> c.url, k |-> 0, pc |-> how, tried |-> c.tried, is404Error |-> FALSE]

\* return, after setData(parsedData)
Succeed(c, o) == Returned(c, "loaded")

\* the 404 flag, set before the throw and in the inner catch
Caught(c, o) ==
  [c EXCEPT !.is404Error = \/ @
                           \/ o.kind = "status404"
                           \/ (Includes404(AttemptError(o)) /\ c.k <= 2)]

\* mutant: the loop steps over a source
NextAttemptSkips(c, o) ==
  [Caught(c, o) EXCEPT !.k = @ + 2, !.tried = Append(@, c.k + 2)]

\* "Continue to next method unless it's the last one": the loop's i++ and the
\* next fetchAttempts[i]()
NextAttempt(c, o) ==
  [Caught(c, o) EXCEPT !.k = @ + 1, !.tried = Append(@, c.k + 1)]

\* throw lastError, out of the loop, and the return after the outer catch
GiveUp(c, o) == Returned(Caught(c, o), "failed")

\* ------------------------------------------------------------ state
VARIABLES
  text,        \* parseCSV's argument
  i,           \* loop index (1-based)
  current,     \* field being collected
  inQuotes,    \* inside-quoted-field flag
  currentRow,  \* fields of the row being collected
  rows,        \* rows pushed so far; the returned table once pc = "done"
  pc,          \* CSVDataTable.parseCSV: "scan" in the loop, "done" after return;
               \* LiveResponsesTable.parseCSV: "lines", "fields", "objects", "live_done"
  live,        \* the locals of LiveResponsesTable.parseCSV
  opened,      \* history: index of the latest opening quote and the locals before it
  csvUrl,        \* the csvUrl prop, as the number of the URL
  data,          \* CSVDataTable's data
  loading,
  error,
  retryCount,
  showFallback,
  calls,         \* the fetchCSVData calls made so far, in call order
  fallbackTimers,\* pending fallback setTimeout callbacks: the seconds each has
                 \* left, in the order set
  retryTimer,    \* the pending auto-retry setTimeout callback: the seconds it
                 \* has left, or empty
  autoRetries,   \* history: runs of the auto-retry callback since the mount or
                 \* the latest Try Again click
  formData,      \* BackupMentorForm's formData
  errors,        \* its errors: field -> message or undefined, set keys only
  isSubmitted,
  isSubmitting,
  submitting,    \* the handleSubmit calls awaiting their 1-second promise, each
                 \* with the formData of the render it was called in
  last         \* history: the branch the latest step took and the locals before it
               \* (for a fetchCSVData step: the number of the call, and what the
               \* awaited attempt brought; for a fallback timer: showFallback and
               \* the retry timer before it; for a handleSubmit step: the render
               \* it was called in, and what validateForm returned)

parseVars == <<text, i, current, inQuotes, currentRow, rows, pc, live, opened>>

tableVars ==
  <<csvUrl, data, loading, error, retryCount, showFallback, calls, fallbackTimers,
    retryTimer, autoRetries>>

formVars == <<formData, errors, isSubmitted, isSubmitting, submitting>>

vars == <<parseVars, tableVars, formVars, last>>

scan ==
  [i |-> i, current |-> current, inQuotes |-> inQuotes,
   currentRow |-> currentRow, rows |-> rows]

SetScan(s) ==
  /\ i' = s.i
  /\ current' = s.current
  /\ inQuotes' = s.inQuotes
  /\ currentRow' = s.currentRow
  /\ rows' = s.rows

NoStep == [branch |-> "none", from |-> ScanInit]

NotOpened == [at |-> 0, from |-> ScanInit]

LiveInit ==
  [split |-> LineInit, lineNo |-> 0, fld |-> FieldInit,
   parsedLines |-> << >>, result |-> << >>]

\* ------------------------------------------------------------ BackupMentorForm
\* the keys of FormData
Fields == {"email", "name", "major", "year", "mentorGoals", "hobbies"}

\* BackupMentorForm as constructed: the useState initial values
FormInit ==
  /\ formData = [f \in Fields |-> << >>]
  /\ errors = << >>
  /\ isSubmitted = FALSE
  /\ isSubmitting = FALSE
  /\ submitting = << >>

\* CSVDataTable as constructed: the useState initial values, no effect run yet
TableInit ==
  /\ csvUrl = 1
  /\ data = << >>
  /\ loading = TRUE
  /\ error = Null
  /\ retryCount = 0
  /\ showFallback = FALSE
  /\ calls = << >>
  /\ fallbackTimers = << >>
  /\ retryTimer = << >>
  /\ autoRetries = 0

\* a call of either component's parseCSV on any text
Init ==
  /\ text \in Inputs
  /\ i = 1
  /\ current = << >>
  /\ inQuotes = FALSE
  /\ currentRow = << >>
  /\ rows = << >>
  /\ pc \in {"scan", "lines"}
  /\ live = LiveInit
  /\ last = NoStep
  /\ opened = NotOpened
  /\ TableInit
  /\ FormInit

InLoop == pc = "scan" /\ i <= Len(text)

Step(branch, s) ==
  /\ SetScan(s)
  /\ last' = [branch |-> branch, from |-> scan]
  /\ opened' = IF branch = "toggle" /\ ~inQuotes
                 THEN [at |-> i, from |-> scan]
                 ELSE opened
  /\ UNCHANGED <<text, pc, live, tableVars, formVars>>

ScanEscapedQuote ==
  /\ InLoop
  /\ IsEscapedQuote(text, scan)
  /\ Step("escaped", ScanChar(text, scan))

ScanToggleQuote ==
  /\ InLoop
  /\ IsToggleQuote(text, scan)
  /\ Step("toggle", ScanChar(text, scan))

ScanEndOfField ==
  /\ InLoop
  /\ IsEndOfField(text, scan)
  /\ Step("field", ScanChar(text, scan))

ScanEndOfRow ==
  /\ InLoop
  /\ IsEndOfRow(text, scan)
  /\ Step("row", ScanChar(text, scan))

ScanPlainChar ==
  /\ InLoop
  /\ IsPlain(text, scan)
  /\ Step("plain", ScanChar(text, scan))

\* loop exit, last-row handling and return
ReturnRows ==
  /\ pc = "scan"
  /\ i > Len(text)
  /\ rows' = LastRow(scan)
  /\ pc' = "done"
  /\ last' = [branch |-> "return", from |-> scan]
  /\ UNCHANGED <<text, i, current, inQuotes, currentRow, opened, live, tableVars, formVars>>

LiveStep(branch, l, p) ==
  /\ live' = l
  /\ pc' = p
  /\ last' = [branch |-> branch, from |-> live]
  /\ UNCHANGED <<text, i, current, inQuotes, currentRow, rows, opened, tableVars, formVars>>

\* an iteration of the first loop
LiveLineChar ==
  /\ pc = "lines"
  /\ live.split.i <= Len(text)
  /\ LiveStep("live_line", [live EXCEPT !.split = LineChar(text, @)], "lines")

\* the end of the first loop: the last line, and the early return on no lines
LiveEndLines ==
  /\ pc = "lines"
  /\ live.split.i > Len(text)
  /\ LET lines == LastLine(live.split)
     IN LiveStep("live_lines",
                 [live EXCEPT !.split.lines = lines,
                              !.lineNo = IF Len(lines) = 0 THEN 0 ELSE 1],
                 IF Len(lines) = 0 THEN "live_done" ELSE "fields")

\* an iteration of the loop over the line lines.map is at
LiveFieldChar ==
  /\ pc = "fields"
  /\ live.fld.i <= Len(live.split.lines[live.lineNo])
  /\ LiveStep("live_field",
              [live EXCEPT !.fld = FieldChar(live.split.lines[live.lineNo], @)],
              "fields")

\* the end of a line: its last field, and lines.map moves on
LiveEndLine ==
  /\ pc = "fields"
  /\ live.fld.i > Len(live.split.lines[live.lineNo])
  /\ LiveStep("live_endline",
              [live EXCEPT !.parsedLines = Append(@, LastField(live.fld)),
                           !.fld = FieldInit,
                           !.lineNo = @ + 1],
              IF live.lineNo = Len(live.split.lines) THEN "objects" ELSE "fields")

\* the header check and the row objects
LiveReturn ==
  /\ pc = "objects"
  /\ LiveStep("live_objects",
              [live EXCEPT !.result = RowObjects(live.parsedLines)],
              "live_done")

Next ==
  \/ ScanEscapedQuote
  \/ ScanToggleQuote
  \/ ScanEndOfField
  \/ ScanEndOfRow
  \/ ScanPlainChar
  \/ ReturnRows
  \/ LiveLineChar
  \/ LiveEndLines
  \/ LiveFieldChar
  \/ LiveEndLine
  \/ LiveReturn

Spec == Init /\ [][Next]_vars

\* a call that has started runs to its return: nothing suspends either function
FairSpec == Spec /\ WF_vars(Next)

\* ------------------------------------------------------------ CSVDataTable, mounted
\* no parseCSV call of its own is in progress: fetchCSVData calls ParseCSV
InitTable ==
  /\ text = << >>
  /\ i = 1
  /\ current = << >>
  /\ inQuotes = FALSE
  /\ currentRow = << >>
  /\ rows = << >>
  /\ pc = "idle"
  /\ live = LiveInit
  /\ last = NoStep
  /\ opened = NotOpened
  /\ TableInit
  /\ FormInit

\* an effect that looks at the error alone
RetryConditionErrorOnly(e, rc, sf) == e # Null /\ ~Includes404(e)

\* if (error && retryCount === 0 && !error.includes('404') && !showFallback)
RetryCondition(e, rc, sf) == e # Null /\ rc = 0 /\ ~Includes404(e) /\ ~sf

\* the auto-retry effect after a render, timer being what is left of the
\* pending retry timer: when a dependency changed, the cleanup clears the
\* timer and the effect sets a new one if its condition holds
RetryEffect(timer) ==
  retryTimer' =
    IF <<error', retryCount', showFallback'>> = <<error, retryCount, showFallback>>
      THEN timer
    ELSE IF RetryCondition(error', retryCount', showFallback')
      THEN <<RetryDelay>>
    ELSE << >>

\* fetchCSVData up to its first await: setLoading(true); setError(null); the
\* first attempt is started
StartFetch(caller) ==
  /\ loading' = TRUE
  /\ error' = Null
  /\ calls' = Append(calls, NewCall(csvUrl'))
  /\ last' = [branch |-> caller, from |-> Len(calls) + 1, got |-> << >>]
  /\ UNCHANGED <<data, fallbackTimers, parseVars, formVars>>

\* useEffect(() => { fetchCSVData(); }, [csvUrl]) on mount
MountEffect ==
  /\ Len(calls) = 0
  /\ UNCHANGED <<csvUrl, retryCount, showFallback, autoRetries>>
  /\ StartFetch("start")
  /\ RetryEffect(retryTimer)

\* the same effect after the parent passes another csvUrl
CsvUrlChange ==
  /\ Len(calls) > 0
  /\ Len(calls) < MaxCalls
  /\ csvUrl <= MaxUrlChanges
  /\ csvUrl' = csvUrl + 1
  /\ StartFetch("start")
  /\ UNCHANGED <<retryCount, showFallback, autoRetries>>
  /\ RetryEffect(retryTimer)

Awaiting(n) == n \in DOMAIN calls /\ calls[n].pc = "await"

\* the awaited attempt brings parseable text: setData, return, finally
AttemptSucceeds(n, o) ==
  /\ Awaiting(n)
  /\ o \in Outcomes(calls[n].k)
  /\ AttemptError(o) = Null
  /\ calls' = [calls EXCEPT ![n] = Succeed(@, o)]
  /\ data' = ParseCSV(o.text)
  /\ loading' = FALSE
  /\ last' = [branch |-> "loaded", from |-> n, got |-> o]
  /\ UNCHANGED <<csvUrl, error, retryCount, showFallback, fallbackTimers,
                 retryTimer, autoRetries, parseVars, formVars>>

\* the awaited attempt fails and is not the last: the loop goes on
AttemptFails(n, o) ==
  /\ Awaiting(n)
  /\ o \in Outcomes(calls[n].k)
  /\ AttemptError(o) # Null
  /\ calls[n].k < NumAttempts
  /\ calls' = [calls EXCEPT ![n] = NextAttempt(@, o)]
  /\ last' = [branch |-> "next", from |-> n, got |-> o]
  /\ UNCHANGED <<csvUrl, data, loading, error, retryCount, showFallback,
                 fallbackTimers, retryTimer, autoRetries, parseVars, formVars>>

\* the last attempt fails: the outer catch and finally
LastAttemptFails(n, o) ==
  /\ Awaiting(n)
  /\ o \in Outcomes(calls[n].k)
  /\ AttemptError(o) # Null
  /\ calls[n].k = NumAttempts
  /\ calls' = [calls EXCEPT ![n] = GiveUp(@, o)]
  /\ IF Includes404(AttemptError(o))
       THEN /\ showFallback' = TRUE
            /\ error' = NotAccessible
            /\ UNCHANGED fallbackTimers
       ELSE /\ error' = UnableToLoad
            /\ fallbackTimers' = Append(fallbackTimers, FallbackDelay)
            /\ UNCHANGED showFallback
  /\ loading' = FALSE
  /\ last' = [branch |-> "failed", from |-> n, got |-> o]
  /\ UNCHANGED <<csvUrl, data, retryCount, autoRetries, parseVars, formVars>>
  /\ RetryEffect(retryTimer)

\* a second passes: no setTimeout callback is due
Tick ==
  /\ fallbackTimers # << >> \/ retryTimer # << >>
  /\ \A k \in DOMAIN fallbackTimers : fallbackTimers[k] > 0
  /\ \A k \in DOMAIN retryTimer : retryTimer[k] > 0
  /\ fallbackTimers' = [k \in DOMAIN fallbackTimers |-> fallbackTimers[k] - 1]
  /\ retryTimer' = [k \in DOMAIN retryTimer |-> retryTimer[k] - 1]
  /\ last' = [branch |-> "tick"]
  /\ UNCHANGED <<csvUrl, data, loading, error, retryCount, showFallback, calls,
                 autoRetries, parseVars, formVars>>

FallbackDue == fallbackTimers # << >> /\ Head(fallbackTimers) = 0

RetryDue == retryTimer # << >> /\ Head(retryTimer) = 0

\* setTimeout(() => { setShowFallback(true); }, 2000)
FallbackTimerFires ==
  /\ FallbackDue
  /\ fallbackTimers' = Tail(fallbackTimers)
  /\ showFallback' = TRUE
  /\ last' = [branch |-> "fallback",
              from |-> [showFallback |-> showFallback, retryTimer |-> retryTimer]]
  /\ UNCHANGED <<csvUrl, data, loading, error, retryCount, calls, autoRetries,
                 parseVars, formVars>>
  /\ RetryEffect(retryTimer)

\* setTimeout(() => { setRetryCount(1); fetchCSVData(); }, 5000)
RetryTimerFires ==
  /\ RetryDue
  /\ retryCount' = 1
  /\ autoRetries' = autoRetries + 1
  /\ UNCHANGED <<csvUrl, showFallback>>
  /\ StartFetch("retry")
  /\ RetryEffect(<< >>)

\* the timer that is due runs its callback, the one set earlier first
TimerFires == IF FallbackDue THEN FallbackTimerFires ELSE RetryTimerFires

\* if (loading) return ...; if (error && !showFallback) return the error view
ShowsError == ~loading /\ error # Null /\ ~showFallback

\* the mock rows: a header row and three rows of seven cells, each cell
\* written as one token; the timestamps are computed from Date.now()
FallbackData ==
  << << <<"Timestamp">>, <<"Name">>, <<"Email">>, <<"Major">>, <<"Year">>,
        <<"Goals">>, <<"Hobbies">> >>,
     << <<"a day ago">>, <<"Sarah Chen">>, <<"sc1234@rit.edu">>,
        <<"Computer Science">>, <<"Fourth Year">>, <<"goals">>, <<"hobbies">> >>,
     << <<"6 hours ago">>, <<"Michael Patel">>, <<"mp5678@rit.edu">>,
        <<"Business Administration">>, <<"Third Year">>, <<"goals">>, <<"hobbies">> >>,
     << <<"2 hours ago">>, <<"Jessica Kim">>, <<"jk9012@rit.edu">>,
        <<"Engineering">>, <<"Graduate Student">>, <<"goals">>, <<"hobbies">> >> >>

\* const displayData = showFallback && data.length === 0 ? fallbackData : data
DisplayData == IF showFallback /\ Len(data) = 0 THEN FallbackData ELSE data

\* the table view is rendered: neither the spinner, nor the error view, nor
\* "No submissions yet"
ShowsTable == ~loading /\ ~ShowsError /\ Len(DisplayData) # 0

\* {showFallback && (... Sample Data Display ...)} in the table view
ShowsBanner == ShowsTable /\ showFallback

\* the Try Again button of the error view
TryAgain ==
  /\ ShowsError
  /\ Len(calls) < MaxCalls
  /\ retryCount' = 0
  /\ showFallback' = FALSE
  /\ autoRetries' = 0
  /\ UNCHANGED csvUrl
  /\ StartFetch("tryagain")
  /\ RetryEffect(retryTimer)

\* the Show Example Data button of the error view
ShowExample ==
  /\ ShowsError
  /\ showFallback' = TRUE
  /\ last' = [branch |-> "example"]
  /\ UNCHANGED <<csvUrl, data, loading, error, retryCount, calls, fallbackTimers,
                 autoRetries, parseVars, formVars>>
  /\ RetryEffect(retryTimer)

\* any call in flight may be the next to hear from its source
SomeAttemptSucceeds ==
  \E n \in DOMAIN calls : \E o \in Outcomes(calls[n].k) : AttemptSucceeds(n, o)

SomeAttemptFails ==
  \E n \in DOMAIN calls : \E o \in Outcomes(calls[n].k) : AttemptFails(n, o)

SomeLastAttemptFails ==
  \E n \in DOMAIN calls : \E o \in Outcomes(calls[n].k) : LastAttemptFails(n, o)

NextTable ==
  \/ MountEffect
  \/ CsvUrlChange
  \/ SomeAttemptSucceeds
  \/ SomeAttemptFails
  \/ SomeLastAttemptFails
  \/ Tick
  \/ TimerFires
  \/ TryAgain
  \/ ShowExample

SpecFetch == InitTable /\ [][NextTable]_vars

\* ------------------------------------------------------------ claim helpers
Scanned == last.branch \in {"escaped", "toggle", "field", "row", "plain"}

\* the character the latest loop iteration looked at, and the one after it
LastChar == CharAt(text, last.from.i)
LastNextChar == CharAt(text, last.from.i + 1)

AllCells(table) ==
  UNION {{table[r][c] : c \in DOMAIN table[r]} : r \in DOMAIN table}

Contains(s, ch) == \E k \in DOMAIN s : s[k] = ch

HasAdjacentQuotes(t) == \E k \in 1..Len(t) - 1 : t[k] = DQ /\ t[k + 1] = DQ

NoEdgeWhiteSpace(s) ==
  s = << >> \/ (s[1] \notin WhiteSpace /\ s[Len(s)] \notin WhiteSpace)

\* the row a terminator or the end of input completes
PendingRow(s) == Append(s.currentRow, Trim(s.current))

\* ------------------------------------------------------------ C1
\* C1: when the scanner visits a double quote, then if it is inside a quoted
\* field and the next character is a double quote it appends exactly one quote
\* to the current field, leaves the inside-quoted flag alone and skips the
\* second quote; any other visited quote flips the flag and appends nothing.
\* Neither case touches the current row or the table.
C1_QuoteStep ==
  (Scanned /\ LastChar = DQ) =>
    /\ currentRow = last.from.currentRow
    /\ rows = last.from.rows
    /\ IF last.from.inQuotes /\ LastNextChar = DQ
         THEN /\ current = Append(last.from.current, DQ)
              /\ inQuotes = last.from.inQuotes
              /\ i = last.from.i + 2
         ELSE /\ current = last.from.current
              /\ inQuotes = ~last.from.inQuotes
              /\ i = last.from.i + 1

\* an escaped quote was scanned inside a quoted field and came out as one quote
C1_Witness ==
  /\ pc = "done"
  /\ text = <<DQ, LETTER, DQ, DQ>>
  /\ inQuotes
  /\ rows = << << <<LETTER, DQ>> >> >>

\* ------------------------------------------------------------ C2
\* C2: a visited comma ends the current field (the trimmed field is pushed on
\* the current row and the field restarts empty) exactly when the scanner is
\* not inside a quoted field; inside a quoted field the comma is appended to
\* the field and no field ends. The wrapping quotes never reach the output: a
\* text without two adjacent quotes yields no cell that holds a quote.
C2_CommaStep ==
  /\ (Scanned /\ LastChar = COMMA) =>
       /\ rows = last.from.rows
       /\ inQuotes = last.from.inQuotes
       /\ IF ~last.from.inQuotes
            THEN /\ currentRow = Append(last.from.currentRow, Trim(last.from.current))
                 /\ current = << >>
            ELSE /\ currentRow = last.from.currentRow
                 /\ current = Append(last.from.current, COMMA)
  /\ (pc = "done" /\ ~HasAdjacentQuotes(text)) =>
       \A cell \in AllCells(rows) : ~Contains(cell, DQ)

\* a quoted comma came out as field text, without the wrapping quotes
C2_Witness ==
  /\ pc = "done"
  /\ text = <<LETTER, COMMA, DQ, COMMA, DQ>>
  /\ rows = << << <<LETTER>>, <<COMMA>> >> >>

\* ------------------------------------------------------------ C3
\* the text with every \r\n pair that the scanner meets outside a quoted field
\* replaced by a single \n
RECURSIVE ReplaceCRLF(_, _, _)
ReplaceCRLF(t, s, out) ==
  IF s.i > Len(t) THEN out
  ELSE LET n == ScanChar(t, s)
       IN IF ~s.inQuotes /\ CharAt(t, s.i) = CR /\ CharAt(t, s.i + 1) = LF
            THEN ReplaceCRLF(t, [n EXCEPT !.i = s.i + 2], Append(out, LF))
            ELSE ReplaceCRLF(t, n, out \o SubSeq(t, s.i, n.i - 1))

\* C3: a visited \n or \r outside a quoted field ends the row (the pending row
\* is pushed unless all its fields are empty, and row and field restart
\* empty), a \r\n pair is consumed as one terminator, replacing the \r\n pairs
\* outside quoted fields by \n leaves the returned table unchanged, and a
\* terminator inside a quoted field is appended to the field and ends nothing.
C3_TerminatorStep ==
  /\ (Scanned /\ LastChar \in {LF, CR}) =>
       /\ inQuotes = last.from.inQuotes
       /\ IF ~last.from.inQuotes
            THEN /\ rows = PushRow(last.from.rows, PendingRow(last.from))
                 /\ currentRow = << >>
                 /\ current = << >>
                 /\ i = IF LastChar = CR /\ LastNextChar = LF
                          THEN last.from.i + 2
                          ELSE last.from.i + 1
            ELSE /\ rows = last.from.rows
                 /\ currentRow = last.from.currentRow
                 /\ current = Append(last.from.current, LastChar)
                 /\ i = last.from.i + 1
  /\ pc = "done" => rows = ParseCSV(ReplaceCRLF(text, ScanInit, << >>))

\* a \r\n pair between two rows ended one row, once
C3_Witness ==
  /\ pc = "done"
  /\ text = <<LETTER, CR, LF, LETTER>>
  /\ rows = << << <<LETTER>> >>, << <<LETTER>> >> >>

\* ------------------------------------------------------------ C4
\* C4: the table never holds a row whose fields are all empty after trimming;
\* a completed row with a non-empty field is appended to the table, in input
\* order, and nothing else ever changes the table; an input of whitespace
\* only (the empty input included) returns the empty table.
C4_BlankRows ==
  /\ \A r \in DOMAIN rows : \E c \in DOMAIN rows[r] : Trim(rows[r][c]) # << >>
  /\ last.branch \in {"escaped", "toggle", "field", "plain"} => rows = last.from.rows
  /\ (last.branch = "row"
        \/ (last.branch = "return"
              /\ (last.from.current # << >> \/ Len(last.from.currentRow) > 0))) =>
       rows = IF SomeCell(PendingRow(last.from))
                THEN Append(last.from.rows, PendingRow(last.from))
                ELSE last.from.rows
  /\ (last.branch = "return"
        /\ last.from.current = << >> /\ Len(last.from.currentRow) = 0) =>
       rows = last.from.rows
  /\ (pc = "done" /\ \A k \in DOMAIN text : text[k] \in WhiteSpace) => rows = << >>

\* a blank row was dropped and the row after it kept
C4_Witness ==
  /\ pc = "done"
  /\ text = <<COMMA, SP, LF, LETTER>>
  /\ rows = << << <<LETTER>> >> >>

\* ------------------------------------------------------------ C5
\* C5: when the input does not end inside a quoted field, the returned table
\* equals the table returned for the input followed by \n.
C5_FinalRow ==
  (pc = "done" /\ ~inQuotes) => rows = ParseCSV(Append(text, LF))

\* an input ending in a comma, without terminator: the last field is ''
C5_Witness ==
  /\ pc = "done"
  /\ text = <<LETTER, COMMA>>
  /\ rows = << << <<LETTER>>, << >> >> >>

\* ------------------------------------------------------------ C6
\* a "" pair read as one quote
RECURSIVE Unescape(_)
Unescape(s) ==
  IF s = << >> THEN << >>
  ELSE IF Head(s) = DQ THEN <<DQ>> \o Unescape(SubSeq(s, 3, Len(s)))
  ELSE <<Head(s)>> \o Unescape(Tail(s))

\* the text after the opening quote that was never closed
AfterOpening == SubSeq(text, opened.at + 1, Len(text))

IsSuffix(s, t) ==
  Len(s) <= Len(t) /\ SubSeq(t, Len(t) - Len(s) + 1, Len(t)) = s

\* C6 as stated: when the input ends inside a quoted field with text after
\* the opening quote, the return pushes a row whose last field ends with all
\* that text.
C6_AsStated ==
  (pc = "done" /\ inQuotes /\ Len(AfterOpening) > 0) =>
    /\ Len(rows) = Len(last.from.rows) + 1
    /\ LET row == rows[Len(rows)]
       IN IsSuffix(Unescape(AfterOpening), row[Len(row)])

\* C6 (amended): when the input ends inside a quoted field, no comma or line
\* terminator after the opening quote ends a field or a row; the last field is
\* the field text collected before the opening quote followed by all the text
\* after it (each "" pair read as one quote), trimmed; the row holding it is
\* appended to the table unless all its fields are empty.
C6_Unterminated ==
  (pc = "done" /\ inQuotes) =>
    LET field == Trim(opened.from.current \o Unescape(AfterOpening))
        row == Append(opened.from.currentRow, field)
    IN /\ currentRow = opened.from.currentRow
       /\ last.from.rows = opened.from.rows
       /\ rows = IF SomeCell(row) THEN Append(opened.from.rows, row)
                                  ELSE opened.from.rows

\* an unterminated quote swallowed a comma and a line terminator into its field
C6_Witness ==
  /\ pc = "done"
  /\ inQuotes
  /\ text = <<DQ, COMMA, LF, LETTER>>
  /\ rows = << << <<COMMA, LF, LETTER>> >> >>

\* ------------------------------------------------------------ C8
\* C8: no field of the table starts or ends with a whitespace character, at
\* any point of the scan and in the returned table.
C8_Trimmed ==
  \A cell \in AllCells(rows) : NoEdgeWhiteSpace(cell)

\* fields written with surrounding blanks came out bare
C8_Witness ==
  /\ pc = "done"
  /\ text = <<SP, LETTER, SP, COMMA>>
  /\ rows = << << <<LETTER>>, << >> >> >>

\* ------------------------------------------------------------ C9
\* C9 as stated: every row object of LiveResponsesTable.parseCSV maps every
\* header to the field at that header's position, or to '' when the row has
\* no field there; every header column CSVDataTable renders for a row shows
\* the field at that position, or '' when the row has no field there.
C9_AsStated ==
  /\ (pc = "live_done" /\ Len(live.parsedLines) >= 2) =>
       LET headers == live.parsedLines[1]
       IN \A r \in 1..Len(live.parsedLines) - 1 : \A k \in DOMAIN headers :
            /\ headers[k] \in DOMAIN live.result[r]
            /\ live.result[r][headers[k]] = FieldOr(live.parsedLines[r + 1], k)
  /\ (pc = "done" /\ Len(rows) >= 1) =>
       \A r \in 1..Len(rows) - 1 : \A c \in 1..Len(rows[1]) :
            RenderBody(rows)[r][c] =
              IF c <= Len(rows[r + 1]) THEN rows[r + 1][c] ELSE << >>

\* ------------------------------------------------------------ C10
ParseReturned == pc \in {"done", "live_done"}

\* every loop iteration moves its index forward, never past one beyond the end
IndexAdvances ==
  /\ Scanned => i > last.from.i /\ i <= Len(text) + 1
  /\ last.branch = "live_line" =>
       live.split.i > last.from.split.i /\ live.split.i <= Len(text) + 1
  /\ last.branch = "live_field" =>
       /\ live.fld.i > last.from.fld.i
       /\ live.fld.i <= Len(live.split.lines[live.lineNo]) + 1
  /\ last.branch = "live_endline" =>
       live.lineNo > last.from.lineNo /\ live.lineNo <= Len(live.split.lines) + 1

\* C10: in both parseCSV functions every loop iteration strictly increases its
\* index (also when an escaped quote or a \r\n pair skips a character), and
\* for every input the call reaches its return with a table.
C10_Total == [](IndexAdvances) /\ <>(ParseReturned)

\* a scan that skipped over a \r\n pair and an escaped quote has returned
C10_Witness ==
  /\ pc = "done"
  /\ text = <<CR, LF, DQ, DQ, DQ>>
  /\ i = Len(text) + 1

\* ------------------------------------------------------------ C7
FetchStep == last.branch \in {"loaded", "next", "failed"}

\* an attempt that "yields non-empty text that parses to a non-empty table"
YieldsTable(o) ==
  o.kind = "ok" /\ Len(o.text) > 0 /\ Len(ParseCSV(o.text)) > 0

\* the same, of a text that holds neither '<html' nor '<!DOCTYPE'
YieldsCsvTable(o) ==
  YieldsTable(o) /\ \A k \in DOMAIN o.text : o.text[k] \notin {HTML, DOCTYPE}

\* the sources of a call were tried one at a time in list order, each once
TriedInOrder ==
  \A n \in DOMAIN calls :
    /\ Len(calls[n].tried) \in 1..NumAttempts
    /\ \A j \in DOMAIN calls[n].tried : calls[n].tried[j] = j
    /\ calls[n].pc = "await" => calls[n].k = Len(calls[n].tried)

\* C7 as stated: sources are tried in list order, each once; a further attempt
\* starts only after one that did not yield non-empty text parsing to a
\* non-empty table, and the attempt that yields such text ends the call with
\* its table as the data.
C7_AsStated ==
  /\ TriedInOrder
  /\ FetchStep =>
       IF YieldsTable(last.got)
         THEN /\ calls[last.from].pc = "loaded"
              /\ data = ParseCSV(last.got.text)
         ELSE calls[last.from].pc # "loaded"

\* C7 (amended): sources are tried one at a time in list order, each at most
\* once per call; the call ends, with the attempt's table as the data, at the
\* first attempt whose response is ok and yields non-empty text that holds no
\* '<html' or '<!DOCTYPE' marker and parses to a non-empty table; after any
\* other attempt the next source is tried, or the call fails when that was
\* the last one.
C7_Sequential ==
  /\ TriedInOrder
  /\ FetchStep =>
       IF YieldsCsvTable(last.got)
         THEN /\ last.branch = "loaded"
              /\ calls[last.from].pc = "loaded"
              /\ data = ParseCSV(last.got.text)
         ELSE /\ last.branch \in {"next", "failed"}
              /\ last.branch = "next" <=>
                   (calls[last.from].pc = "await" /\ calls[last.from].k <= NumAttempts)
              /\ last.branch = "failed" <=>
                   (calls[last.from].pc = "failed"
                      /\ Len(calls[last.from].tried) = NumAttempts)

\* two sources failed one after the other and the third
\* brought the table that became the data
C7_Witness ==
  /\ last.branch = "loaded"
  /\ calls[last.from].tried = <<1, 2, 3>>
  /\ data = << << <<LETTER>>, <<LETTER>> >> >>
  /\ Len(calls) = 1

\* ------------------------------------------------------------ C11
\* the text between wrapping quotes is well formed: every quote in it is
\* one of a doubled pair
RECURSIVE WellQuoted(_)
WellQuoted(s) ==
  IF s = << >> THEN TRUE
  ELSE IF Head(s) = DQ
    THEN Len(s) >= 2 /\ s[2] = DQ /\ WellQuoted(SubSeq(s, 3, Len(s)))
  ELSE WellQuoted(Tail(s))

\* the source text of a field is wrapped in quotes
QuotedSource(s) ==
  /\ Len(s) >= 2
  /\ s[1] = DQ
  /\ s[Len(s)] = DQ
  /\ WellQuoted(SubSeq(s, 2, Len(s) - 1))

\* the step just taken of LiveResponsesTable.parseCSV pushed a field
PushedAField ==
  \/ last.branch = "live_endline"
  \/ last.branch = "live_field" /\ Len(live.fld.fields) > Len(last.from.fld.fields)

\* the source text of that field, and the field as pushed
PushedSource == Trim(last.from.fld.currentField)

PushedField ==
  IF last.branch = "live_endline"
    THEN LET row == live.parsedLines[Len(live.parsedLines)] IN row[Len(row)]
    ELSE live.fld.fields[Len(live.fld.fields)]

\* C11 as stated: in LiveResponsesTable.parseCSV every field whose source
\* text was wrapped in quotes is pushed with the wrapping quotes removed and
\* each doubled quote inside replaced by one quote, also when the quoted text
\* holds a comma or a line break.
C11_AsStated ==
  (PushedAField /\ QuotedSource(PushedSource)) =>
    PushedField = Unescape(SubSeq(PushedSource, 2, Len(PushedSource) - 1))

\* ------------------------------------------------------------ utils/formValidation
\* the pieces of an address
AT == "@"
RIT == "rit.edu"
GMAIL == "gmail.com"

\* the institutional pattern: a local part, "@", the institution's domain
IsInstitutional(e) ==
  /\ Len(e) >= 3
  /\ e[Len(e)] = RIT
  /\ e[Len(e) - 1] = AT
  /\ \A k \in 1..Len(e) - 2 : e[k] = LETTER

Required == "required"
InvalidEmail == "invalid email"

\* a validator that does not trim
FieldErrorUntrimmed(fd, f) ==
  IF fd[f] = << >> THEN Required
  ELSE IF f = "email" /\ ~IsInstitutional(fd[f]) THEN InvalidEmail
  ELSE Undefined

\* the entry validateForm makes for a field, undefined for none
FieldError(fd, f) ==
  IF Trim(fd[f]) = << >> THEN Required
  ELSE IF f = "email" /\ ~IsInstitutional(fd[f]) THEN InvalidEmail
  ELSE Undefined

\* validateForm(formData): an object with an entry per invalid field
ValidateForm(fd) ==
  [f \in {g \in Fields : FieldError(fd, g) # Undefined} |-> FieldError(fd, f)]

\* ------------------------------------------------------------ BackupMentorForm, mounted
\* what the user can put into a field: the year comes from the Select
FieldValues(f) ==
  IF f = "email"
    THEN {<< >>, <<SP>>, <<LETTER, AT, RIT>>, <<LETTER, AT, GMAIL>>}
  ELSE IF f = "year" THEN {<<LETTER>>}
  ELSE {<< >>, <<SP>>, <<LETTER>>}

\* a check that lets every form data through
HasEntriesNever(validationErrors) == FALSE

\* Object.keys(validationErrors).length > 0
HasEntries(validationErrors) == DOMAIN validationErrors # {}

\* errors[field], truthy
ErrorShown(field) == field \in DOMAIN errors /\ errors[field] # Undefined

\* what a handler's closure holds of the render it was created in
Rendered ==
  [formData |-> formData, isSubmitting |-> isSubmitting, isSubmitted |-> isSubmitted]

\* handleInputChange(field, value), the form being rendered
HandleInputChange(field, value) ==
  /\ ~isSubmitted
  /\ formData' = [formData EXCEPT ![field] = value]
  /\ errors' = IF ErrorShown(field)
                 THEN [errors EXCEPT ![field] = Undefined]
                 ELSE errors
  /\ last' = [branch |-> "input"]
  /\ UNCHANGED <<isSubmitted, isSubmitting, submitting, parseVars, tableVars>>

\* handleSubmit when validateForm returns entries: setErrors; return.
\* The submit button is disabled while isSubmitting
HandleSubmitRejects ==
  /\ ~isSubmitted
  /\ ~isSubmitting
  /\ HasEntries(ValidateForm(formData))
  /\ errors' = ValidateForm(formData)
  /\ last' = [branch |-> "rejected", from |-> Rendered, got |-> ValidateForm(formData)]
  /\ UNCHANGED <<formData, isSubmitted, isSubmitting, submitting, parseVars, tableVars>>

\* handleSubmit up to its await: setIsSubmitting(true)
HandleSubmitAccepts ==
  /\ ~isSubmitted
  /\ ~isSubmitting
  /\ ~HasEntries(ValidateForm(formData))
  /\ isSubmitting' = TRUE
  /\ submitting' = Append(submitting,
                          [formData |-> formData,
                           validationErrors |-> ValidateForm(formData)])
  /\ last' = [branch |-> "accepted", from |-> Rendered, got |-> ValidateForm(formData)]
  /\ UNCHANGED <<formData, errors, isSubmitted, parseVars, tableVars>>

\* the 1-second promise resolves: setIsSubmitting(false); setIsSubmitted(true)
SubmissionCompletes ==
  /\ submitting # << >>
  /\ isSubmitting' = FALSE
  /\ isSubmitted' = TRUE
  /\ submitting' = Tail(submitting)
  /\ last' = [branch |-> "submitted",
              from |-> [formData |-> Head(submitting).formData,
                        isSubmitting |-> isSubmitting,
                        isSubmitted |-> isSubmitted],
              got |-> Head(submitting).validationErrors]
  /\ UNCHANGED <<formData, errors, parseVars, tableVars>>

NextForm ==
  \/ \E field \in Fields : \E value \in FieldValues(field) :
       HandleInputChange(field, value)
  \/ HandleSubmitRejects
  \/ HandleSubmitAccepts
  \/ SubmissionCompletes

\* the form alone: neither table component runs
InitForm == InitTable

SpecForm == InitForm /\ [][NextForm]_vars

\* ------------------------------------------------------------ C12
\* a field of the form data is invalid: empty after trimming, or the email
\* not an institutional address
Invalid(fd, f) ==
  \/ \A k \in DOMAIN fd[f] : fd[f][k] \in WhiteSpace
  \/ f = "email" /\ fd[f] # <<LETTER, AT, RIT>>

\* the step just taken was a handleSubmit call, which called validateForm
Validated == last.branch \in {"rejected", "accepted"}

\* C12: validateForm returns an entry for a field exactly when that field is
\* invalid (empty after trimming, or the email not matching the institutional
\* pattern), no entry at all when every field is valid, and leaves the form
\* data as it was.
C12_Validation ==
  Validated =>
    /\ \A f \in Fields :
         (f \in DOMAIN last.got /\ last.got[f] # Undefined)
           <=> Invalid(last.from.formData, f)
    /\ (\A f \in Fields : ~Invalid(last.from.formData, f)) => last.got = << >>
    /\ formData = last.from.formData

\* a blank name and an address of another domain, the other fields filled:
\* entries for exactly those two
C12_Witness ==
  /\ last.branch = "rejected"
  /\ last.from.formData.name = <<SP>>
  /\ last.from.formData.email = <<LETTER, AT, GMAIL>>
  /\ DOMAIN last.got = {"name", "email"}

\* ------------------------------------------------------------ C17
\* C17, the state part: a handleSubmit call whose validation returned entries
\* stored them as the errors and left formData, isSubmitting and isSubmitted
\* as they were; isSubmitted is true only after the promise of a handleSubmit
\* call whose validation of the form data it was called with returned no
\* entries.
C17_Calls ==
  /\ last.branch = "rejected" =>
       /\ DOMAIN last.got # {}
       /\ errors = last.got
       /\ formData = last.from.formData
       /\ isSubmitting = last.from.isSubmitting
       /\ isSubmitted = last.from.isSubmitted
  /\ isSubmitted =>
       /\ last.branch = "submitted"
       /\ last.got = ValidateForm(last.from.formData)
       /\ DOMAIN last.got = {}

\* C17: isSubmitted becomes true only after a handleSubmit call whose
\* validation returned no entries for the form data held at that call; a call
\* whose validation returned entries stores them and leaves isSubmitting,
\* isSubmitted and formData unchanged; once true, isSubmitted never becomes
\* false.
C17_Submission == [](C17_Calls) /\ [][isSubmitted => isSubmitted']_vars

\* submitted after a rejected attempt was repaired, the form data edited
\* again while the submission was awaited
C17_Witness ==
  /\ isSubmitted
  /\ DOMAIN errors # {}
  /\ formData # last.from.formData

\* ------------------------------------------------------------ C13
\* the 2-second fallback timer has just run while an automatic retry was
\* scheduled: a load failed with an error other than a 404 and, since then,
\* no retry has run, no button was clicked and the csvUrl has not changed
FallbackRanBeforeRetry ==
  last.branch = "fallback" /\ last.from.retryTimer # << >>

\* C13 as stated: after a load in which every attempt failed with an error
\* other than a 404, and with no user action, fetchCSVData is invoked again
\* automatically, once, 5 seconds after the failure: the retry the failure
\* scheduled is still scheduled after the fallback timer has run.
C13_AsStated == FallbackRanBeforeRetry => retryTimer # << >>

\* ------------------------------------------------------------ C14
\* the number of the attempt the latest fetchCSVData step heard from
AttemptNo ==
  IF last.branch = "next"
    THEN Len(calls[last.from].tried) - 1
    ELSE Len(calls[last.from].tried)

\* C14 as stated: when one of the first two attempts fails with a 404 the
\* remaining attempts are skipped and the sample data is shown at once: the
\* call ends, showFallback is set with the not-accessible message, and neither
\* a delayed fallback nor an automatic retry is scheduled by it.
C14_AsStated ==
  (FetchStep /\ last.got.kind = "status404" /\ AttemptNo <= 2) =>
    /\ calls[last.from].pc = "failed"
    /\ showFallback
    /\ error = NotAccessible
    /\ retryTimer = << >>

\* ------------------------------------------------------------ C15
\* C15: between the mount and the first Try Again click, and between two
\* Try Again clicks, the retry timer's callback calls fetchCSVData at most
\* once, whatever the fetch failures, timer firings and csvUrl changes.
C15_AtMostOnce == autoRetries <= 1

\* a load failed, the csvUrl changed and the load for the new csvUrl failed
\* too, so that a retry was scheduled a second time; the fallback timer of
\* the first failure has just run and cleared it
C15_Witness ==
  /\ FallbackRanBeforeRetry
  /\ csvUrl = 2
  /\ Len(calls) = 2
  /\ \A n \in DOMAIN calls : calls[n].pc = "failed"
  /\ retryCount = 0
  /\ retryTimer = << >>
  /\ autoRetries = 0

\* ------------------------------------------------------------ C16
\* C16 as stated: whenever the 'Sample Data Display' banner is rendered, the
\* rows of the table are the mock fallback rows.
C16_AsStated == ShowsBanner => DisplayData = FallbackData

\* ------------------------------------------------------------ C18
\* the latest fetchCSVData step ended its call, writing data or error
Settled == last.branch \in {"loaded", "failed"}

\* C18 as stated: a response that ends a call never overwrites the result of
\* a call started later for a newer csvUrl: when a call ends, every call for a
\* newer csvUrl is still in flight.
C18_AsStated ==
  Settled =>
    \A m \in DOMAIN calls :
      calls[m].url > calls[last.from].url => calls[m].pc = "await"

====
